---------------------------- MODULE Spec2Model ----------------------------
(***************************************************************************)
(* The typed in-memory table store of src/unnamed/part_000: DataType       *)
(* validators, Column, Row, Table (insert / count / sum / avg) and the     *)
(* Database singleton registry (createTable / getTable).  The other       *)
(* programs of the repository (course scheduling in src/unnamed/part_001,  *)
(* port simulator in src/lab2/cpp/main.cpp) follow, each with its own      *)
(* variables and its own specification.                                    *)
(*                                                                         *)
(* A std::string is a sequence of one-character strings, so that the       *)
(* validators and the numeric parsers read it character by character as    *)
(* the library routines do.  A std::unordered_map<string,string> is a      *)
(* function whose DOMAIN is its key set.  A std::shared_ptr<Table> is the  *)
(* index of the Table object in heap.                                      *)
(***************************************************************************)
EXTENDS Integers, Sequences, FiniteSets, TLC

(***************************************************************************)
(* Bounds of the model and the input sets.                                 *)
(***************************************************************************)
\* Total number of rows stored over all tables; Insert is disabled beyond it.
MaxRows == 2

\* Names a caller passes to createTable / getTable.
TableNames == {"users", "orders"}

\* Keys of the value maps passed to insert and the column arguments of the
\* aggregate queries.  A schema need not declare all of them.
Keys == {"id", "age"}

\* Texts a caller supplies as values.
TextPool ==
    { <<>>,
      <<"1">>,
      <<"-", "5">>,
      <<"2", "0", "2", "4", "-", "0", "1", "-", "1", "5">> }

(***************************************************************************)
(* Characters.                                                             *)
(***************************************************************************)
Digits == {"0", "1", "2", "3", "4", "5", "6", "7", "8", "9"}

\* isspace() in the "C" locale, restricted to the characters that occur.
Space == {" "}

DigitVal(c) ==
    CASE c = "0" -> 0 [] c = "1" -> 1 [] c = "2" -> 2 [] c = "3" -> 3
      [] c = "4" -> 4 [] c = "5" -> 5 [] c = "6" -> 6 [] c = "7" -> 7
      [] c = "8" -> 8 [] c = "9" -> 9

\* INT_MIN of a 32-bit int.
IntMin == (-2147483647) - 1

(***************************************************************************)
(* std::stoi(value, &pos) in base 10: skip leading white space, read an    *)
(* optional sign, then the longest run of digits.  Throws                  *)
(* std::invalid_argument when there is no digit and std::out_of_range when *)
(* the number does not fit an int.  The magnitude is accumulated on the    *)
(* negative side so that INT_MIN is representable.                         *)
(***************************************************************************)
RECURSIVE SkipSpace(_, _)
SkipSpace(s, i) ==
    IF i <= Len(s) /\ s[i] \in Space THEN SkipSpace(s, i + 1) ELSE i

SkipSign(s, i) ==
    IF i <= Len(s) /\ s[i] \in {"+", "-"} THEN i + 1 ELSE i

RECURSIVE DigitsEnd(_, _)
DigitsEnd(s, i) ==
    IF i <= Len(s) /\ s[i] \in Digits THEN DigitsEnd(s, i + 1) ELSE i

\* acc is the negated magnitude read so far, or 1 once it fell below INT_MIN.
RECURSIVE NegMagnitude(_, _, _, _)
NegMagnitude(s, i, j, acc) ==
    IF i >= j THEN acc
    ELSE IF acc = 1 THEN 1
    ELSE LET d == DigitVal(s[i])
             fits == \/ acc > -214748364
                     \/ acc = -214748364 /\ d <= 8
         IN  NegMagnitude(s, i + 1, j, IF fits THEN acc * 10 - d ELSE 1)

Stoi(s) ==
    LET a   == SkipSpace(s, 1)
        b   == SkipSign(s, a)
        e   == DigitsEnd(s, b)
        neg == b > a /\ s[a] = "-"
        m   == NegMagnitude(s, b, e, 0)
    IN  IF e = b THEN [ok |-> FALSE, pos |-> 0, val |-> 0]
        ELSE IF m = 1 \/ (~neg /\ m = IntMin)
             THEN [ok |-> FALSE, pos |-> 0, val |-> 0]
        ELSE [ok |-> TRUE, pos |-> e - 1, val |-> IF neg THEN m ELSE -m]

(***************************************************************************)
(* std::stod(value) on texts without '.', exponent, hexadecimal prefix,    *)
(* "inf" or "nan" (TextPool holds none): skip white space, optional sign,  *)
(* longest run of decimal digits; std::invalid_argument without a digit.   *)
(* Trailing characters are not an error for stod.                          *)
(***************************************************************************)
RECURSIVE Magnitude(_, _, _, _)
Magnitude(s, i, j, acc) ==
    IF i >= j THEN acc ELSE Magnitude(s, i + 1, j, acc * 10 + DigitVal(s[i]))

Stod(s) ==
    LET a   == SkipSpace(s, 1)
        b   == SkipSign(s, a)
        e   == DigitsEnd(s, b)
        neg == b > a /\ s[a] = "-"
        m   == Magnitude(s, b, e, 0)
    IN  IF e = b THEN [ok |-> FALSE, val |-> 0]
        ELSE [ok |-> TRUE, val |-> IF neg THEN -m ELSE m]

(***************************************************************************)
(* DataType hierarchy.                                                     *)
(***************************************************************************)
TypeNames == {"Integer", "String", "Boolean", "Date"}

\* IntegerType::validate without the comparison of pos with value.size().
IntegerType_validate_prefix(value) ==
    IF value = <<>> THEN FALSE
    ELSE LET r == Stoi(value) IN r.ok

IntegerType_validate(value) ==
    IF value = <<>> THEN FALSE
    ELSE LET r == Stoi(value) IN r.ok /\ r.pos = Len(value)

StringType_validate(value) == TRUE

BooleanType_validate(value) ==
    \/ value = <<"t", "r", "u", "e">>
    \/ value = <<"f", "a", "l", "s", "e">>
    \/ value = <<"1">>
    \/ value = <<"0">>

DateType_validate(value) ==
    IF Len(value) # 10 THEN FALSE
    ELSE IF value[5] # "-" \/ value[8] # "-" THEN FALSE
    ELSE \A i \in {1, 2, 3, 4, 6, 7, 9, 10} : value[i] \in Digits

\* Virtual dispatch of DataType::validate on the dynamic type.
DataType_validate(type, value) ==
    CASE type = "Integer" -> IntegerType_validate(value)
      [] type = "String"  -> StringType_validate(value)
      [] type = "Boolean" -> BooleanType_validate(value)
      [] type = "Date"    -> DateType_validate(value)

(***************************************************************************)
(* Column.  foreignKey is stored and never read by any operation, so it    *)
(* is not part of the record.                                              *)
(***************************************************************************)
Column(n, t, nullb, pk) ==
    [name |-> n, type |-> t, nullable |-> nullb, primaryKey |-> pk]

\* Column::validate without the empty-value branch.
Column_validate_typeOnly(col, value) == DataType_validate(col.type, value)

Column_validate(col, value) ==
    IF value = <<>> THEN col.nullable
    ELSE DataType_validate(col.type, value)

\* Column lists handed to createTable (TableBuilder::addColumn calls).
Schemas ==
    { << Column("id", "Integer", FALSE, TRUE), Column("age", "Integer", TRUE, FALSE) >>,
      << Column("id", "String", TRUE, TRUE) >>,
      << Column("id", "Date", FALSE, FALSE), Column("age", "Boolean", TRUE, FALSE) >> }

\* Value maps handed to insert.
EmptyMap == [k \in {} |-> <<>>]
ValueMaps == UNION { [D -> TextPool] : D \in SUBSET Keys }

(***************************************************************************)
(* State.                                                                  *)
(***************************************************************************)
\* heap:     the Table objects made by createTable, indexed by handle
\* registry: Database::tables, table name -> handle
\* last:     the last call, its arguments and its outcome
\* pre:      heap and registry as they were when the last call began
VARIABLES heap, registry, last, pre

\* pc:       the statement of the table store's main that runs next
VARIABLES pc

\* probe:    a text handed to IntegerType::validate and the verdict on it
VARIABLES probe

\* Course scheduling (src/unnamed/part_001).
\* sessions: StudentGroup::sessions of each group
\* created:  the Session and CourseWork objects the last call constructed
\* ulast:    the last call of the course program and its outcome
VARIABLES sessions, created, ulast

\* Port simulator (src/lab2/cpp/main.cpp).
\* ships:    the Ship objects (limits, currentPort, containers)
\* ports:    the Port objects (containers)
\* plast:    the last call on a ship and its outcome
VARIABLES ships, ports, plast

\* Billing (src/unnamed/part_001 from line 421).
\* operators: the Operator objects (charges, discountRate)
\* customers: the Customer objects (age, op, bill)
\* bills:     the Bill objects (limitingAmount, currentDebt)
\* blast:     the last call on a customer and its outcome
VARIABLES operators, customers, bills, blast

storeVars == <<heap, registry, last, pre>>
courseVars == <<sessions, created, ulast>>
portVars == <<ships, ports, plast>>
billVars == <<operators, customers, bills, blast>>

vars == <<heap, registry, last, pre, pc, probe, sessions, created, ulast,
          ships, ports, plast, operators, customers, bills, blast>>

\* The values of the variables of a program that is not running.
IdleDemo == pc = 0
IdleProbe == probe = [text |-> <<>>, verdict |-> "none"]
IdleCourse ==
    /\ sessions = <<>>
    /\ created = {}
    /\ ulast = [op |-> "none"]
IdlePort ==
    /\ ships = <<>>
    /\ ports = <<>>
    /\ plast = [op |-> "none"]
IdleBill ==
    /\ operators = <<>>
    /\ customers = <<>>
    /\ bills = <<>>
    /\ blast = [op |-> "none"]

\* The tables and the registry at the moment a call begins.
Snapshot == [heap |-> heap, registry |-> registry]

NoErr == [kind |-> "none", column |-> "", text |-> <<>>]
Err(k, c, t) == [kind |-> k, column |-> c, text |-> t]

\* A double is the quotient num / den of two integers.
Real(n, d) == [num |-> n, den |-> d]

Call(op, tbl, name, values, column, err, ret) ==
    [op |-> op, tbl |-> tbl, name |-> name, values |-> values,
     column |-> column, err |-> err, ret |-> ret]

TotalRows ==
    LET RECURSIVE Tot(_)
        Tot(i) == IF i = 0 THEN 0 ELSE Len(heap[i].rows) + Tot(i - 1)
    IN  Tot(Len(heap))

\* The table store before the first call: the registry is empty.
InitStore ==
    /\ heap = <<>>
    /\ registry = EmptyMap
    /\ last = Call("none", 0, "", EmptyMap, "", NoErr, Real(0, 1))
    /\ pre = [heap |-> <<>>, registry |-> EmptyMap]

Init ==
    /\ InitStore
    /\ IdleDemo /\ IdleProbe /\ IdleCourse /\ IdlePort /\ IdleBill

(***************************************************************************)
(* Table.                                                                  *)
(***************************************************************************)
Table(n, c) == [name |-> n, columns |-> c, rows |-> <<>>]

\* rowData[key] = value on an unordered_map: inserts or overwrites.
MapPut(m, key, value) ==
    [k \in DOMAIN m \cup {key} |-> IF k = key THEN value ELSE m[k]]

\* Table::insert loop storing the empty string for every missing value that
\* is not a primary key.
RECURSIVE InsertLoop_noRequired(_, _, _, _)
InsertLoop_noRequired(columns, values, i, rowData) ==
    IF i > Len(columns) THEN [err |-> NoErr, rowData |-> rowData]
    ELSE LET col == columns[i] IN
         IF col.name \notin DOMAIN values
         THEN IF col.primaryKey
              THEN [err |-> Err("MissingPrimaryKeyValue", col.name, <<>>),
                    rowData |-> rowData]
              ELSE InsertLoop_noRequired(columns, values, i + 1,
                                         MapPut(rowData, col.name, <<>>))
         ELSE LET value == values[col.name] IN
              IF ~Column_validate(col, value)
              THEN [err |-> Err("InvalidColumnValue", col.name, value),
                    rowData |-> rowData]
              ELSE InsertLoop_noRequired(columns, values, i + 1,
                                         MapPut(rowData, col.name, value))

\* Table::insert loop walking the columns from the last to the first.
RECURSIVE InsertLoop_reverse(_, _, _, _)
InsertLoop_reverse(columns, values, i, rowData) ==
    IF i > Len(columns) THEN [err |-> NoErr, rowData |-> rowData]
    ELSE LET col == columns[Len(columns) + 1 - i] IN
         IF col.name \notin DOMAIN values
         THEN IF col.primaryKey
              THEN [err |-> Err("MissingPrimaryKeyValue", col.name, <<>>),
                    rowData |-> rowData]
              ELSE IF ~col.nullable
              THEN [err |-> Err("MissingRequiredValue", col.name, <<>>),
                    rowData |-> rowData]
              ELSE InsertLoop_reverse(columns, values, i + 1,
                                      MapPut(rowData, col.name, <<>>))
         ELSE LET value == values[col.name] IN
              IF ~Column_validate(col, value)
              THEN [err |-> Err("InvalidColumnValue", col.name, value),
                    rowData |-> rowData]
              ELSE InsertLoop_reverse(columns, values, i + 1,
                                      MapPut(rowData, col.name, value))

\* Table::insert loop testing isNullable before isPrimaryKey.
RECURSIVE InsertLoop_nullableFirst(_, _, _, _)
InsertLoop_nullableFirst(columns, values, i, rowData) ==
    IF i > Len(columns) THEN [err |-> NoErr, rowData |-> rowData]
    ELSE LET col == columns[i] IN
         IF col.name \notin DOMAIN values
         THEN IF col.nullable
              THEN InsertLoop_nullableFirst(columns, values, i + 1,
                                            MapPut(rowData, col.name, <<>>))
              ELSE IF col.primaryKey
              THEN [err |-> Err("MissingPrimaryKeyValue", col.name, <<>>),
                    rowData |-> rowData]
              ELSE [err |-> Err("MissingRequiredValue", col.name, <<>>),
                    rowData |-> rowData]
         ELSE LET value == values[col.name] IN
              IF ~Column_validate(col, value)
              THEN [err |-> Err("InvalidColumnValue", col.name, value),
                    rowData |-> rowData]
              ELSE InsertLoop_nullableFirst(columns, values, i + 1,
                                            MapPut(rowData, col.name, value))

\* The loop of Table::insert from column i on; a throw ends it.
RECURSIVE InsertLoop(_, _, _, _)
InsertLoop(columns, values, i, rowData) ==
    IF i > Len(columns) THEN [err |-> NoErr, rowData |-> rowData]
    ELSE LET col == columns[i] IN
         IF col.name \notin DOMAIN values
         THEN IF col.primaryKey
              THEN [err |-> Err("MissingPrimaryKeyValue", col.name, <<>>),
                    rowData |-> rowData]
              ELSE IF ~col.nullable
              THEN [err |-> Err("MissingRequiredValue", col.name, <<>>),
                    rowData |-> rowData]
              ELSE InsertLoop(columns, values, i + 1,
                              MapPut(rowData, col.name, <<>>))
         ELSE LET value == values[col.name] IN
              IF ~Column_validate(col, value)
              THEN [err |-> Err("InvalidColumnValue", col.name, value),
                    rowData |-> rowData]
              ELSE InsertLoop(columns, values, i + 1,
                              MapPut(rowData, col.name, value))

\* Table::insert refusing a map that has a key outside the schema.
Table_insert_rejectUnknown(t, values) ==
    LET r == InsertLoop(t.columns, values, 1, EmptyMap)
        unknown == DOMAIN values \ { t.columns[i].name : i \in 1..Len(t.columns) }
    IN  IF unknown # {}
        THEN [table |-> t,
              err |-> Err("UnknownColumn", CHOOSE k \in unknown : TRUE, <<>>)]
        ELSE IF r.err # NoErr THEN [table |-> t, err |-> r.err]
        ELSE [table |-> [t EXCEPT !.rows = Append(@, r.rowData)],
              err |-> NoErr]

\* Table::insert committing rowData as far as it got when a column throws.
Table_insert_partial(t, values) ==
    LET r == InsertLoop(t.columns, values, 1, EmptyMap)
    IN  [table |-> [t EXCEPT !.rows = Append(@, r.rowData)], err |-> r.err]

\* Table::insert storing the caller's map instead of rowData.
Table_insert_storesValues(t, values) ==
    LET r == InsertLoop(t.columns, values, 1, EmptyMap)
    IN  IF r.err # NoErr THEN [table |-> t, err |-> r.err]
        ELSE [table |-> [t EXCEPT !.rows = Append(@, values)], err |-> NoErr]

\* Table::insert putting the new row at the front of rows.
Table_insert_front(t, values) ==
    LET r == InsertLoop(t.columns, values, 1, EmptyMap)
    IN  IF r.err # NoErr THEN [table |-> t, err |-> r.err]
        ELSE [table |-> [t EXCEPT !.rows = <<r.rowData>> \o @], err |-> NoErr]

\* Table::insert on a table value: the table afterwards and the exception.
Table_insert(t, values) ==
    LET r == InsertLoop(t.columns, values, 1, EmptyMap)
    IN  IF r.err # NoErr THEN [table |-> t, err |-> r.err]
        ELSE [table |-> [t EXCEPT !.rows = Append(@, r.rowData)],
              err |-> NoErr]

\* Table::count without the !empty() test.
RECURSIVE CountLoop_present(_, _, _)
CountLoop_present(rows, column, i) ==
    IF i > Len(rows) THEN 0
    ELSE (IF column \in DOMAIN rows[i] THEN 1 ELSE 0)
         + CountLoop_present(rows, column, i + 1)

RECURSIVE CountLoop(_, _, _)
CountLoop(rows, column, i) ==
    IF i > Len(rows) THEN 0
    ELSE (IF column \in DOMAIN rows[i] /\ rows[i][column] # <<>> THEN 1 ELSE 0)
         + CountLoop(rows, column, i + 1)

Table_count(t, column) == CountLoop(t.rows, column, 1)

\* The first loop of Table::sum without the dynamic_cast test.
RECURSIVE IsNumeric_anyType(_, _, _)
IsNumeric_anyType(columns, column, i) ==
    IF i > Len(columns) THEN FALSE
    ELSE IF columns[i].name = column THEN TRUE
    ELSE IsNumeric_anyType(columns, column, i + 1)

\* The first loop of Table::sum: the first column of that name decides.
RECURSIVE IsNumeric(_, _, _)
IsNumeric(columns, column, i) ==
    IF i > Len(columns) THEN FALSE
    ELSE IF columns[i].name = column THEN columns[i].type = "Integer"
    ELSE IsNumeric(columns, column, i + 1)

RECURSIVE SumLoop(_, _, _)
SumLoop(rows, column, i) ==
    IF i > Len(rows) THEN 0
    ELSE (IF column \in DOMAIN rows[i] /\ rows[i][column] # <<>>
          THEN LET d == Stod(rows[i][column]) IN IF d.ok THEN d.val ELSE 0
          ELSE 0)
         + SumLoop(rows, column, i + 1)

Table_sum(t, column) ==
    IF ~IsNumeric(t.columns, column, 1) THEN 0 ELSE SumLoop(t.rows, column, 1)

\* Table::avg dividing by the number of rows.
Table_avg_allRows(t, column) ==
    LET num == Len(t.rows)
    IN  IF num = 0 THEN Real(0, 1) ELSE Real(Table_sum(t, column), num)

Table_avg(t, column) ==
    LET num == Table_count(t, column)
    IN  IF num = 0 THEN Real(0, 1) ELSE Real(Table_sum(t, column), num)

(***************************************************************************)
(* Actions: one per public operation.                                      *)
(***************************************************************************)
\* Database::createTable without the tables.count(name) test.
CreateTable_noGuard(name, columns) ==
    LET table == Len(heap) + 1 IN
    /\ pre' = Snapshot
    /\ heap' = Append(heap, Table(name, columns))
    /\ registry' = MapPut(registry, name, table)
    /\ last' = Call("createTable", table, name, EmptyMap, "", NoErr,
                    Real(0, 1))

\* Database::createTable, also reached through TableBuilder::build.
CreateTable(name, columns) ==
    /\ pre' = Snapshot
    /\ IF name \in DOMAIN registry
       THEN /\ last' = Call("createTable", 0, name, EmptyMap, "",
                            Err("DuplicateTableName", name, <<>>), Real(0, 1))
            /\ UNCHANGED <<heap, registry>>
       ELSE LET table == Len(heap) + 1 IN
            /\ heap' = Append(heap, Table(name, columns))
            /\ registry' = MapPut(registry, name, table)
            /\ last' = Call("createTable", table, name, EmptyMap, "", NoErr,
                            Real(0, 1))

\* Database::getTable returning a null handle for an unknown name.
GetTable_nullHandle(name) ==
    /\ pre' = Snapshot
    /\ last' = Call("getTable",
                    IF name \in DOMAIN registry THEN registry[name] ELSE 0,
                    name, EmptyMap, "", NoErr, Real(0, 1))
    /\ UNCHANGED <<heap, registry>>

\* Database::getTable.
GetTable(name) ==
    /\ pre' = Snapshot
    /\ last' = IF name \in DOMAIN registry
               THEN Call("getTable", registry[name], name, EmptyMap, "",
                         NoErr, Real(0, 1))
               ELSE Call("getTable", 0, name, EmptyMap, "",
                         Err("TableNotFound", name, <<>>), Real(0, 1))
    /\ UNCHANGED <<heap, registry>>

Insert(h, values) ==
    /\ TotalRows < MaxRows
    /\ pre' = Snapshot
    /\ LET r == Table_insert(heap[h], values) IN
       /\ heap' = [heap EXCEPT ![h] = r.table]
       /\ last' = Call("insert", h, heap[h].name, values, "", r.err,
                       Real(0, 1))
    /\ UNCHANGED registry

\* Table::count reading the entry with operator[], which creates it.
Count_subscript(h, column) ==
    /\ pre' = Snapshot
    /\ last' = Call("count", h, heap[h].name, EmptyMap, column, NoErr,
                    Real(Table_count(heap[h], column), 1))
    /\ heap' = [heap EXCEPT ![h].rows =
                    [i \in 1..Len(@) |->
                        IF column \in DOMAIN @[i] THEN @[i]
                        ELSE MapPut(@[i], column, <<>>)]]
    /\ UNCHANGED registry

Count(h, column) ==
    /\ pre' = Snapshot
    /\ last' = Call("count", h, heap[h].name, EmptyMap, column, NoErr,
                    Real(Table_count(heap[h], column), 1))
    /\ UNCHANGED <<heap, registry>>

Sum(h, column) ==
    /\ pre' = Snapshot
    /\ last' = Call("sum", h, heap[h].name, EmptyMap, column, NoErr,
                    Real(Table_sum(heap[h], column), 1))
    /\ UNCHANGED <<heap, registry>>

Avg(h, column) ==
    /\ pre' = Snapshot
    /\ last' = Call("avg", h, heap[h].name, EmptyMap, column, NoErr,
                    Table_avg(heap[h], column))
    /\ UNCHANGED <<heap, registry>>

\* The variables of the programs other than the table store.
notStore == <<pc, probe, courseVars, portVars, billVars>>

Next ==
    \/ \E name \in TableNames, columns \in Schemas :
          CreateTable(name, columns) /\ UNCHANGED notStore
    \/ \E name \in TableNames : GetTable(name) /\ UNCHANGED notStore
    \/ \E h \in DOMAIN heap, values \in ValueMaps :
          Insert(h, values) /\ UNCHANGED notStore
    \/ \E h \in DOMAIN heap, column \in Keys :
          Count(h, column) /\ UNCHANGED notStore
    \/ \E h \in DOMAIN heap, column \in Keys :
          Sum(h, column) /\ UNCHANGED notStore
    \/ \E h \in DOMAIN heap, column \in Keys :
          Avg(h, column) /\ UNCHANGED notStore

Spec == Init /\ [][Next]_vars

(***************************************************************************)
(* Vocabulary of the properties.                                           *)
(***************************************************************************)
ColumnNames(t) == { t.columns[i].name : i \in 1..Len(t.columns) }

IsPrefix(s, t) == Len(s) <= Len(t) /\ SubSeq(t, 1, Len(s)) = s

\* What a column is required to accept: emptiness is decided by the nullable
\* flag alone, any other text by the column's type.
Accepts(col, text) ==
    IF text = <<>> THEN col.nullable ELSE DataType_validate(col.type, text)

\* The column lets the insert go on: it has an acceptable entry, or it has
\* none and is nullable and not a primary key.
Passes(col, values) ==
    IF col.name \in DOMAIN values
    THEN Accepts(col, values[col.name])
    ELSE col.nullable /\ ~col.primaryKey

\* The insert examines column i: every column declared before it passed.
Reaches(t, values, i) == \A j \in 1..(i - 1) : Passes(t.columns[j], values)

\* The table and the newest row of the call recorded in last.
LastTable == heap[last.tbl]
LastRow == LastTable.rows[Len(LastTable.rows)]

(***************************************************************************)
(* C1: Table.insert is all-or-nothing.  An insert fails exactly when some  *)
(* schema column does not pass; a failed insert leaves every row list as   *)
(* it was before the call, and a row is appended only when every schema    *)
(* column passed.                                                          *)
(***************************************************************************)
C1_InsertAllOrNothing ==
    last.op = "insert" =>
        LET h == last.tbl
            allPass == \A i \in 1..Len(pre.heap[h].columns) :
                          Passes(pre.heap[h].columns[i], last.values)
        IN  /\ (last.err = NoErr) <=> allPass
            /\ last.err # NoErr => heap = pre.heap
            /\ Len(heap[h].rows) > Len(pre.heap[h].rows) => allPass

\* An insert failed on its second column, after the first was accepted and
\* put into rowData, on a table that already holds a row.
C1_Witness ==
    /\ last.op = "insert"
    /\ last.err.kind = "InvalidColumnValue"
    /\ Len(LastTable.columns) = 2
    /\ last.err.column = LastTable.columns[2].name
    /\ Len(LastTable.rows) = 1

(***************************************************************************)
(* C2: every stored row holds a non-empty value for every primary-key      *)
(* column, whatever the column's nullable flag.                            *)
(***************************************************************************)
C2_PrimaryKeyNotNull ==
    \A h \in DOMAIN heap :
        \A i \in 1..Len(heap[h].rows), j \in 1..Len(heap[h].columns) :
            LET col == heap[h].columns[j]
                row == heap[h].rows[i]
            IN  col.primaryKey =>
                    col.name \in DOMAIN row /\ row[col.name] # <<>>

(***************************************************************************)
(* C3: when the insert examines a schema column that has no entry in the   *)
(* value map, it fails with MissingPrimaryKeyValue for a primary key, with *)
(* MissingRequiredValue for a non-nullable column that is not a primary    *)
(* key, and otherwise goes on past the column, and the row of a successful *)
(* insert stores the empty value for it.                                   *)
(***************************************************************************)
C3_MissingEntry ==
    last.op = "insert" =>
        \A i \in 1..Len(LastTable.columns) :
            LET col == LastTable.columns[i] IN
            (col.name \notin DOMAIN last.values
                /\ Reaches(LastTable, last.values, i)) =>
                IF col.primaryKey
                THEN last.err = Err("MissingPrimaryKeyValue", col.name, <<>>)
                ELSE IF ~col.nullable
                THEN last.err = Err("MissingRequiredValue", col.name, <<>>)
                ELSE /\ last.err.column # col.name
                     /\ last.err = NoErr =>
                            /\ col.name \in DOMAIN LastRow
                            /\ LastRow[col.name] = <<>>

\* A row was inserted with its nullable column omitted.
C3_Witness ==
    /\ last.op = "insert"
    /\ last.err = NoErr
    /\ \E i \in 1..Len(LastTable.columns) :
          /\ LastTable.columns[i].name \notin DOMAIN last.values
          /\ LastRow[LastTable.columns[i].name] = <<>>

(***************************************************************************)
(* C4: when the insert examines a schema column that has an entry, it      *)
(* fails with InvalidColumnValue naming the column and the text exactly    *)
(* when the text is rejected (empty text: the column is not nullable;      *)
(* other text: the type validator rejects it), and an accepted text is     *)
(* stored unchanged in the new row.                                        *)
(***************************************************************************)
C4_SuppliedEntry ==
    last.op = "insert" =>
        \A i \in 1..Len(LastTable.columns) :
            LET col == LastTable.columns[i] IN
            (col.name \in DOMAIN last.values
                /\ Reaches(LastTable, last.values, i)) =>
                LET text == last.values[col.name] IN
                /\ (last.err = Err("InvalidColumnValue", col.name, text))
                      <=> ~Accepts(col, text)
                /\ last.err = NoErr =>
                      /\ col.name \in DOMAIN LastRow
                      /\ LastRow[col.name] = text

\* An empty text supplied for a non-nullable column was rejected.
C4_Witness ==
    /\ last.op = "insert"
    /\ last.err.kind = "InvalidColumnValue"
    /\ last.err.text = <<>>
    /\ \E i \in 1..Len(LastTable.columns) :
          /\ LastTable.columns[i].name = last.err.column
          /\ ~LastTable.columns[i].nullable

(***************************************************************************)
(* C5: every stored row's key set equals the set of the table's column     *)
(* names.                                                                  *)
(***************************************************************************)
C5_RowKeysAreColumnNames ==
    \A h \in DOMAIN heap :
        \A i \in 1..Len(heap[h].rows) :
            DOMAIN heap[h].rows[i] = ColumnNames(heap[h])

\* A row was inserted from a map that has a key outside the schema.
C5_Witness ==
    /\ last.op = "insert"
    /\ last.err = NoErr
    /\ DOMAIN last.values \ ColumnNames(LastTable) # {}

(***************************************************************************)
(* C6: a table's row list is append-only.  Over every call each table      *)
(* stays, with the row list it had before the call a prefix of the one it  *)
(* has after; a successful insert extends the row list of its table by     *)
(* exactly one row at the end, and count, sum and avg change no row list.  *)
(***************************************************************************)
C6_RowsAppendOnly ==
    /\ \A h \in DOMAIN pre.heap :
          /\ h \in DOMAIN heap
          /\ IsPrefix(pre.heap[h].rows, heap[h].rows)
    /\ (last.op = "insert" /\ last.err = NoErr) =>
          /\ Len(heap[last.tbl].rows) = Len(pre.heap[last.tbl].rows) + 1
          /\ \A h \in DOMAIN pre.heap \ {last.tbl} :
                heap[h].rows = pre.heap[h].rows
    /\ last.op \in {"count", "sum", "avg"} => heap = pre.heap

\* A second, different row was appended to a table.
C6_Witness ==
    /\ last.op = "insert"
    /\ last.err = NoErr
    /\ Len(LastTable.rows) = 2
    /\ LastTable.rows[1] # LastTable.rows[2]

(***************************************************************************)
(* C7: createTable on a registered name fails with DuplicateTableName and  *)
(* changes nothing; on any other name it registers exactly one new, empty  *)
(* table under that name and returns its handle.  No two tables ever made  *)
(* bear the same name.                                                     *)
(***************************************************************************)
C7_CreateTable ==
    /\ last.op = "createTable" =>
          LET name == last.name IN
          IF name \in DOMAIN pre.registry
          THEN /\ last.err = Err("DuplicateTableName", name, <<>>)
               /\ heap = pre.heap
               /\ registry = pre.registry
          ELSE /\ last.err = NoErr
               /\ DOMAIN registry = DOMAIN pre.registry \cup {name}
               /\ \A n \in DOMAIN pre.registry : registry[n] = pre.registry[n]
               /\ registry[name] = last.tbl
               /\ last.tbl \notin DOMAIN pre.heap
               /\ DOMAIN heap = DOMAIN pre.heap \cup {last.tbl}
               /\ \A h \in DOMAIN pre.heap : heap[h] = pre.heap[h]
               /\ heap[last.tbl].name = name
               /\ heap[last.tbl].rows = <<>>
    /\ \A h1, h2 \in DOMAIN heap : heap[h1].name = heap[h2].name => h1 = h2

\* createTable was refused for the name of a table that holds a row.
C7_Witness ==
    /\ last.op = "createTable"
    /\ last.err.kind = "DuplicateTableName"
    /\ Len(heap[registry[last.name]].rows) > 0

(***************************************************************************)
(* C8: getTable fails with TableNotFound for a name under which no table   *)
(* was created, and otherwise returns the handle createTable returned for  *)
(* that name: the registry entry made by createTable is never changed or   *)
(* removed, and names are registered by createTable only.                  *)
(***************************************************************************)
C8_GetTable ==
    /\ \A n \in DOMAIN pre.registry :
          n \in DOMAIN registry /\ registry[n] = pre.registry[n]
    /\ \A n \in DOMAIN registry \ DOMAIN pre.registry :
          /\ last.op = "createTable"
          /\ last.err = NoErr
          /\ last.name = n
          /\ last.tbl = registry[n]
    /\ last.op = "getTable" =>
          /\ heap = pre.heap
          /\ IF last.name \in DOMAIN pre.registry
             THEN last.err = NoErr /\ last.tbl = pre.registry[last.name]
             ELSE last.err = Err("TableNotFound", last.name, <<>>)

\* getTable returned a table into which a row had been inserted, while the
\* other name is still unknown.
C8_Witness ==
    /\ last.op = "getTable"
    /\ last.err = NoErr
    /\ Len(heap[last.tbl].rows) > 0
    /\ DOMAIN registry # TableNames

(***************************************************************************)
(* C9: count(columnName) is the number of stored rows whose entry for      *)
(* columnName is present and non-empty; it is 0 for a name outside the     *)
(* schema.                                                                 *)
(***************************************************************************)
C9_Count ==
    last.op = "count" =>
        LET rows == LastTable.rows
            n == Cardinality({ i \in 1..Len(rows) :
                                /\ last.column \in DOMAIN rows[i]
                                /\ rows[i][last.column] # <<>> })
        IN  /\ last.err = NoErr
            /\ last.ret = Real(n, 1)
            /\ last.column \notin ColumnNames(LastTable) => last.ret = Real(0, 1)

\* count skipped a row whose nullable column is empty and counted another.
C9_Witness ==
    /\ last.op = "count"
    /\ last.ret = Real(1, 1)
    /\ Len(LastTable.rows) = 2
    /\ \E i \in 1..2 : LastTable.rows[i][last.column] = <<>>

(***************************************************************************)
(* C10: sum(columnName) raises no error; it is 0 when the schema has no    *)
(* column of that name with type Integer, and otherwise the sum of the     *)
(* integer values of the non-empty texts stored in that column.            *)
(***************************************************************************)
C10_Sum ==
    last.op = "sum" =>
        LET t == LastTable
            integer == \E i \in 1..Len(t.columns) :
                          /\ t.columns[i].name = last.column
                          /\ t.columns[i].type = "Integer"
            term(i) == IF t.rows[i][last.column] = <<>> THEN 0
                       ELSE Stoi(t.rows[i][last.column]).val
            total[i \in 0..Len(t.rows)] ==
                IF i = 0 THEN 0 ELSE total[i - 1] + term(i)
        IN  /\ last.err = NoErr
            /\ last.ret = Real(IF integer THEN total[Len(t.rows)] ELSE 0, 1)

\* sum added two different integers of an Integer column.
C10_Witness ==
    /\ last.op = "sum"
    /\ last.ret = Real(-4, 1)
    /\ Len(LastTable.rows) = 2

(***************************************************************************)
(* Reference values of the aggregates, from the stored rows.               *)
(***************************************************************************)
\* Number of rows of t with a present, non-empty entry for column.
NonEmptyCount(t, column) ==
    Cardinality({ i \in 1..Len(t.rows) :
                    /\ column \in DOMAIN t.rows[i]
                    /\ t.rows[i][column] # <<>> })

\* Sum of the integer values of the non-empty texts of an Integer column,
\* 0 for any other column.
IntegerTotal(t, column) ==
    LET integer == \E i \in 1..Len(t.columns) :
                      /\ t.columns[i].name = column
                      /\ t.columns[i].type = "Integer"
        term(i) == IF t.rows[i][column] = <<>> THEN 0
                   ELSE Stoi(t.rows[i][column]).val
        total[i \in 0..Len(t.rows)] ==
            IF i = 0 THEN 0 ELSE total[i - 1] + term(i)
    IN  IF integer THEN total[Len(t.rows)] ELSE 0

(***************************************************************************)
(* C11: avg(columnName) is sum(columnName) / count(columnName) when the    *)
(* count of non-empty values is positive, and 0.0 when it is 0.            *)
(***************************************************************************)
C11_Avg ==
    last.op = "avg" =>
        LET n == NonEmptyCount(LastTable, last.column) IN
        /\ last.err = NoErr
        /\ last.ret = IF n = 0 THEN Real(0, 1)
                      ELSE Real(IntegerTotal(LastTable, last.column), n)

\* avg divided a non-zero sum by 1 on a table of two rows, one of them
\* without a value in the column.
C11_Witness ==
    /\ last.op = "avg"
    /\ last.ret.den = 1
    /\ last.ret.num # 0
    /\ Len(LastTable.rows) = 2

(***************************************************************************)
(* C12: a failed insert reports the first column, in schema declaration    *)
(* order, that does not pass; the violation of a later column is not       *)
(* reported.                                                               *)
(***************************************************************************)
C12_FirstViolationReported ==
    (last.op = "insert" /\ last.err # NoErr) =>
        LET cols == LastTable.columns
            bad == { i \in 1..Len(cols) : ~Passes(cols[i], last.values) }
        IN  /\ bad # {}
            /\ LET first == CHOOSE i \in bad : \A j \in bad : i <= j
                   col == cols[first]
               IN  /\ last.err.column = col.name
                   /\ last.err.kind =
                         IF col.name \in DOMAIN last.values
                         THEN "InvalidColumnValue"
                         ELSE IF col.primaryKey THEN "MissingPrimaryKeyValue"
                         ELSE "MissingRequiredValue"

\* An insert whose map violates two columns failed.
C12_Witness ==
    /\ last.op = "insert"
    /\ last.err # NoErr
    /\ Cardinality({ i \in 1..Len(LastTable.columns) :
                       ~Passes(LastTable.columns[i], last.values) }) = 2

(***************************************************************************)
(* C15: entries of the value map for names outside the schema are ignored: *)
(* the insert has the outcome, and stores the row, that the same map       *)
(* without those entries would have given on the table as it was.          *)
(***************************************************************************)
C15_UnknownKeysIgnored ==
    last.op = "insert" =>
        LET before == pre.heap[last.tbl]
            known == DOMAIN last.values \cap ColumnNames(before)
            restricted == [k \in known |-> last.values[k]]
            r == Table_insert(before, restricted)
        IN  /\ last.err = r.err
            /\ heap[last.tbl] = r.table
            /\ last.err.column \in ColumnNames(before) \cup {""}

\* An insert whose map has a key outside the schema failed for a column of
\* the schema.
C15_Witness ==
    /\ last.op = "insert"
    /\ DOMAIN last.values \ ColumnNames(LastTable) # {}
    /\ last.err.kind = "MissingPrimaryKeyValue"

(***************************************************************************)
(* C16: count, sum and avg are read-only and idempotent: the call leaves   *)
(* every table (rows and schema) and the registry as they were, and the    *)
(* same query asked again on the resulting state returns the same value.   *)
(***************************************************************************)
C16_AggregatesReadOnly ==
    last.op \in {"count", "sum", "avg"} =>
        /\ heap = pre.heap
        /\ registry = pre.registry
        /\ last.ret = CASE last.op = "count" ->
                              Real(Table_count(LastTable, last.column), 1)
                        [] last.op = "sum" ->
                              Real(Table_sum(LastTable, last.column), 1)
                        [] last.op = "avg" ->
                              Table_avg(LastTable, last.column)

\* count was asked for a name outside the schema on a table that has rows.
C16_Witness ==
    /\ last.op = "count"
    /\ last.column \notin ColumnNames(LastTable)
    /\ Len(LastTable.rows) = 2

(***************************************************************************)
(* main of the table store (src/unnamed/part_000, lines 261-309).  pc is   *)
(* the statement that runs next: 0 the TableBuilder chain, 1..6 the six    *)
(* inserts, 7..9 count, sum and avg of "age", 10 the end.  The first four  *)
(* inserts share one try block, so a throw among them goes to the fifth.   *)
(* The aggregate queries and getTable are const / lookup calls; besides    *)
(* their place at the end of main they are also asked between the          *)
(* statements, for every column name, so that the table is observed at     *)
(* each point of the run.                                                  *)
(***************************************************************************)
DemoColumns ==
    << Column("id", "Integer", FALSE, TRUE),
       Column("name", "String", FALSE, FALSE),
       Column("age", "Integer", TRUE, FALSE) >>

\* Column names asked of the aggregates: the schema's and one outside it.
DemoKeys == {"id", "name", "age", "email"}

Alex == <<"A", "l", "e", "x">>
Mira == <<"M", "i", "r", "a">>
Sam == <<"S", "a", "m">>
Test == <<"T", "e", "s", "t">>
Four == <<"f", "o", "u", "r">>

DemoValues(k) ==
    CASE k = 1 -> ("id" :> <<"1">> @@ "name" :> Alex @@ "age" :> <<"2", "5">>)
      [] k = 2 -> ("id" :> <<"2">> @@ "name" :> Mira @@ "age" :> <<"3", "0">>)
      [] k = 3 -> ("id" :> <<"3">> @@ "name" :> Sam)
      [] k = 4 -> ("id" :> <<"4">>)
      [] k = 5 -> ("id" :> Four @@ "name" :> Test)
      [] k = 6 -> ("name" :> Test)

\* The handle main keeps in users.
Users == registry["users"]

\* The variables main of the table store does not have.
notDemo == <<probe, courseVars, portVars, billVars>>

DemoBuild ==
    /\ pc = 0
    /\ CreateTable("users", DemoColumns)
    /\ pc' = 1
    /\ UNCHANGED notDemo

DemoInsert(k) ==
    /\ pc = k
    /\ pre' = Snapshot
    /\ LET r == Table_insert(heap[Users], DemoValues(k)) IN
       /\ heap' = [heap EXCEPT ![Users] = r.table]
       /\ last' = Call("insert", Users, heap[Users].name, DemoValues(k), "",
                       r.err, Real(0, 1))
       /\ pc' = IF r.err # NoErr /\ k <= 4 THEN 5 ELSE k + 1
    /\ UNCHANGED <<registry, notDemo>>

DemoCount == pc = 7 /\ Count(Users, "age") /\ pc' = 8 /\ UNCHANGED notDemo

DemoSum == pc = 8 /\ Sum(Users, "age") /\ pc' = 9 /\ UNCHANGED notDemo

DemoAvg == pc = 9 /\ Avg(Users, "age") /\ pc' = 10 /\ UNCHANGED notDemo

DemoObserveCount(column) ==
    pc \in 1..10 /\ Count(Users, column) /\ UNCHANGED <<pc, notDemo>>

DemoObserveSum(column) ==
    pc \in 1..10 /\ Sum(Users, column) /\ UNCHANGED <<pc, notDemo>>

DemoObserveAvg(column) ==
    pc \in 1..10 /\ Avg(Users, column) /\ UNCHANGED <<pc, notDemo>>

DemoGetTable(name) ==
    pc \in 1..10 /\ GetTable(name) /\ UNCHANGED <<pc, notDemo>>

NextDemo ==
    \/ DemoBuild
    \/ \E k \in 1..6 : DemoInsert(k)
    \/ DemoCount
    \/ DemoSum
    \/ DemoAvg
    \/ \E column \in DemoKeys : DemoObserveCount(column)
    \/ \E column \in DemoKeys : DemoObserveSum(column)
    \/ \E column \in DemoKeys : DemoObserveAvg(column)
    \/ \E name \in TableNames : DemoGetTable(name)

SpecDemo == Init /\ [][NextDemo]_vars

(***************************************************************************)
(* C13: in the demo the inserts of Alex, Mira and Sam succeed; the inserts *)
(* {id:4}, {id:four,name:Test} and {name:Test} fail and leave the three    *)
(* rows as they are; afterwards count(age) = 2, sum(age) = 55 and          *)
(* avg(age) = 55/2 = 27.5.                                                 *)
(***************************************************************************)
C13_Demo ==
    /\ last.op = "insert" =>
          /\ \A k \in 1..3 : last.values = DemoValues(k) =>
                /\ last.err = NoErr
                /\ Len(heap[Users].rows) = k
                /\ pc = k + 1
          /\ last.values = DemoValues(4) =>
                last.err = Err("MissingRequiredValue", "name", <<>>)
          /\ last.values = DemoValues(5) =>
                last.err = Err("InvalidColumnValue", "id", Four)
          /\ last.values = DemoValues(6) =>
                last.err = Err("MissingPrimaryKeyValue", "id", <<>>)
          /\ (\E k \in 4..6 : last.values = DemoValues(k)) =>
                heap = pre.heap /\ Len(heap[Users].rows) = 3
    /\ pc >= 4 =>
          /\ Len(heap[Users].rows) = 3
          /\ (last.column = "age" /\ last.op = "count") => last.ret = Real(2, 1)
          /\ (last.column = "age" /\ last.op = "sum") => last.ret = Real(55, 1)
          /\ (last.column = "age" /\ last.op = "avg") => last.ret = Real(55, 2)

\* main reached its end, having just printed avg(age) = 55/2.
C13_Witness ==
    /\ pc = 10
    /\ last.op = "avg"
    /\ last.column = "age"
    /\ last.ret = Real(55, 2)
    /\ Len(heap[Users].rows) = 3
    /\ heap[Users].rows[3]["age"] = <<>>


(***************************************************************************)
(* IntegerType::validate as a function of its text                         *)
(* (src/unnamed/part_000 lines 22-36).  The texts are all the sequences of *)
(* at most MaxLen characters over IntegerAlphabet, and texts around the    *)
(* ends of the int range.                                                  *)
(***************************************************************************)
MaxLen == 3

\* A digit, a high digit, the two signs, white space and a letter.
IntegerAlphabet == {"1", "9", "-", "+", " ", "x"}

ShortTexts ==
    UNION { [1..n -> IntegerAlphabet] : n \in 0..MaxLen }

RangeTexts ==
    { <<"2", "1", "4", "7", "4", "8", "3", "6", "4", "7">>,
      <<"2", "1", "4", "7", "4", "8", "3", "6", "4", "8">>,
      <<"+", "2", "1", "4", "7", "4", "8", "3", "6", "4", "7">>,
      <<"-", "2", "1", "4", "7", "4", "8", "3", "6", "4", "8">>,
      <<"-", "2", "1", "4", "7", "4", "8", "3", "6", "4", "9">>,
      <<"0", "0", "2", "1", "4", "7", "4", "8", "3", "6", "4", "7">>,
      <<"0", "0", "0", "0", "0", "0", "0", "0", "0", "0", "0", "1">>,
      <<"9", "9", "9", "9", "9", "9", "9", "9", "9", "9", "9">>,
      <<"1", "0", "0", "0", "0", "0", "0", "0", "0", "0">>,
      <<"3", "0", "0", "0", "0", "0", "0", "0", "0", "0">>,
      <<" ", "2", "1", "4", "7", "4", "8", "3", "6", "4", "8">>,
      <<"1", "2", "x">>,
      <<"1", "2", "3">>,
      <<"1", " ">> }

IntegerTexts == ShortTexts \cup RangeTexts

InitInteger ==
    /\ InitStore
    /\ IdleBill
    /\ IdleDemo
    /\ IdleCourse
    /\ IdlePort
    /\ \E text \in IntegerTexts : probe = [text |-> text, verdict |-> "none"]

\* One call validate(probe.text) on an IntegerType.
Validate ==
    /\ probe.verdict = "none"
    /\ probe' = [probe EXCEPT
                   !.verdict = IF IntegerType_validate(probe.text)
                               THEN "valid" ELSE "invalid"]
    /\ UNCHANGED <<storeVars, pc, courseVars, portVars, billVars>>

NextInteger == Validate

SpecInteger == InitInteger /\ [][NextInteger]_vars

\* The text from position i on.
From(s, i) == SubSeq(s, i, Len(s))

AllDigits(s) == \A i \in 1..Len(s) : s[i] \in Digits

\* An optional sign followed by at least one digit and nothing else.
SignedDigits(s) ==
    LET b == IF s # <<>> /\ s[1] \in {"+", "-"} THEN 2 ELSE 1
    IN  /\ b <= Len(s)
        /\ AllDigits(From(s, b))

RECURSIVE StripZeros(_)
StripZeros(d) ==
    IF d # <<>> /\ d[1] = "0" THEN StripZeros(Tail(d)) ELSE d

\* d and e are digit sequences of one length; d is at most e as a numeral.
RECURSIVE NumeralLeq(_, _)
NumeralLeq(d, e) ==
    IF d = <<>> THEN TRUE
    ELSE IF DigitVal(d[1]) < DigitVal(e[1]) THEN TRUE
    ELSE IF DigitVal(d[1]) > DigitVal(e[1]) THEN FALSE
    ELSE NumeralLeq(Tail(d), Tail(e))

\* The signed numeral s denotes a number of [-2^31, 2^31 - 1], decided on
\* the digits without computing the number.
InIntRange(s) ==
    LET neg   == s[1] = "-"
        b     == IF s[1] \in {"+", "-"} THEN 2 ELSE 1
        d     == StripZeros(From(s, b))
        limit == <<"2", "1", "4", "7", "4", "8", "3", "6", "4",
                   IF neg THEN "8" ELSE "7">>
    IN  \/ Len(d) < Len(limit)
        \/ Len(d) = Len(limit) /\ NumeralLeq(d, limit)

\* The text without its leading white space.
RECURSIVE DropSpace(_)
DropSpace(s) ==
    IF s # <<>> /\ s[1] \in Space THEN DropSpace(Tail(s)) ELSE s

\* C14 as stated: validate(text) is true if and only if text is non-empty
\* and is an optional leading sign followed only by base-10 digits, the
\* whole string consumed; every other text is rejected.
C14_Original ==
    probe.verdict # "none" =>
        (probe.verdict = "valid" <=> SignedDigits(probe.text))

\* C14 amended: validate(text) is true if and only if text, after any
\* leading white space, is an optional sign followed by at least one digit
\* and nothing else, and the number it denotes fits a 32-bit int; every
\* other text (empty, only a sign, trailing characters such as "12x" or
\* "1 ", digits out of the int range) is rejected.
C14_IntegerValidate ==
    probe.verdict # "none" =>
        (probe.verdict = "valid" <=>
            LET t == DropSpace(probe.text) IN
            SignedDigits(t) /\ InIntRange(t))

\* A text with white space, a sign and a digit has been accepted.
C14_Witness ==
    /\ probe.text = <<" ", "-", "9">>
    /\ probe.verdict = "valid"

(***************************************************************************)
(* The course-scheduling program of src/unnamed/part_001 (lines 1-419):    *)
(* teachers, sessions, coursework, the session and course factories and    *)
(* StudentGroup.  A shared_ptr<Teacher> is the teacher's record; every     *)
(* teacher pointer passed in is non-null, as in main.  sessions maps a     *)
(* group to its session list, created is the set of Session and CourseWork *)
(* objects the last call constructed (every object is constructed by some  *)
(* call, so a property of created in every state is a property of every    *)
(* object ever constructed), ulast records the last call.                  *)
(***************************************************************************)
\* Sessions held by all groups together; enroll and addSession stop beyond
\* it.
MaxSessions == 3

Groups == {"FeP-21", "FeP-22"}

drSinkevych == [name |-> "Dr. Oleh Sinkevych", type |-> "Lecturer"]
drPetrenko == [name |-> "Dr. Mariia Petrenko", type |-> "Assistant"]
mentor == [name |-> "Industry Expert Ivan", type |-> "External Mentor"]

Teachers == {drSinkevych, drPetrenko, mentor}

Teacher_canTeachLecture(t) ==
    CASE t.type = "Lecturer"        -> TRUE
      [] t.type = "Assistant"       -> FALSE
      [] t.type = "External Mentor" -> FALSE

Teacher_canTeachPractical(t) ==
    CASE t.type = "Lecturer"        -> TRUE
      [] t.type = "Assistant"       -> TRUE
      [] t.type = "External Mentor" -> FALSE

Teacher_canSuperviseCourseWork(t) ==
    CASE t.type = "Lecturer"        -> TRUE
      [] t.type = "Assistant"       -> TRUE
      [] t.type = "External Mentor" -> TRUE

\* What a call of the course program threw.
NoThrow == "none"
InvalidArgument == "invalid_argument"

\* The result of a constructor: the object, or the exception it threw.
Made(obj) == [ok |-> TRUE, obj |-> obj, err |-> NoThrow]
Thrown(e) == [ok |-> FALSE, obj |-> [class |-> "none"], err |-> e]

\* LectureSession's constructor without the eligibility test.
LectureSession_noCheck(t, r, teach) ==
    Made([class |-> "LectureSession", time |-> t, room |-> r,
          teacher |-> teach])

LectureSession(t, r, teach) ==
    IF ~Teacher_canTeachLecture(teach) THEN Thrown(InvalidArgument)
    ELSE Made([class |-> "LectureSession", time |-> t, room |-> r,
               teacher |-> teach])

PracticalSession(t, r, teach) ==
    IF ~Teacher_canTeachPractical(teach) THEN Thrown(InvalidArgument)
    ELSE Made([class |-> "PracticalSession", time |-> t, room |-> r,
               teacher |-> teach])

CourseWorkClasses == {"OnlineSubmission", "GitHubSubmission", "OralDefense"}

\* CourseWork's constructor, run by the constructor of each subclass.
CourseWork(class, sup) ==
    IF ~Teacher_canSuperviseCourseWork(sup) THEN Thrown(InvalidArgument)
    ELSE Made([class |-> class, supervisor |-> sup, submitted |-> FALSE])

CourseFactories ==
    {"ProgrammingCourseFactory", "DatabasesCourseFactory", "MathCourseFactory"}

SessionFactories == {"LectureFactory", "PracticalFactory"}

CourseFactory_createLecture(factory, time, room, teacher) ==
    LectureSession(time, room, teacher)

CourseFactory_createPractical(factory, time, room, teacher) ==
    PracticalSession(time, room, teacher)

CourseFactory_createCourseWork(factory, supervisor) ==
    CASE factory = "ProgrammingCourseFactory" ->
           CourseWork("GitHubSubmission", supervisor)
      [] factory = "DatabasesCourseFactory" ->
           CourseWork("OnlineSubmission", supervisor)
      [] factory = "MathCourseFactory" ->
           CourseWork("OralDefense", supervisor)

SessionFactory_createSession(factory, time, room, teacher) ==
    CASE factory = "LectureFactory"   -> LectureSession(time, room, teacher)
      [] factory = "PracticalFactory" -> PracticalSession(time, room, teacher)

\* Times and rooms passed to the session factories outside enroll.
Slots == {<<"Fri 12:00", "Room 201">>}

\* Times and rooms enroll gives to the lecture and to the practical.
EnrollLectureSlot == <<"Mon 10:00", "Auditorium 1">>
EnrollPracticalSlot == <<"Wed 14:00", "Lab 3">>

\* The Session objects that can exist: those a constructor returns.
ExistingSessions ==
    LET made == { LectureSession(s[1], s[2], t) :
                    s \in Slots \cup {EnrollLectureSlot}, t \in Teachers }
                \cup
                { PracticalSession(s[1], s[2], t) :
                    s \in Slots \cup {EnrollPracticalSlot}, t \in Teachers }
    IN  { r.obj : r \in { m \in made : m.ok } }

TotalSessions == Len(sessions["FeP-21"]) + Len(sessions["FeP-22"])

UCall(op, group, via, teachers, err, ret) ==
    [op |-> op, group |-> group, via |-> via, teachers |-> teachers,
     err |-> err, ret |-> ret, before |-> sessions]

NoObject == [class |-> "none"]

InitCourse ==
    /\ InitStore
    /\ IdleBill
    /\ IdleDemo
    /\ IdleProbe
    /\ IdlePort
    /\ sessions = [g \in Groups |-> <<>>]
    /\ created = {}
    /\ ulast = [op |-> "none", group |-> "", via |-> "", teachers |-> <<>>,
                err |-> NoThrow, ret |-> NoObject,
                before |-> [g \in Groups |-> <<>>]]

notCourse == <<storeVars, pc, probe, portVars, billVars>>

\* factory->createSession(time, room, teacher) on a LectureFactory or a
\* PracticalFactory.
CreateSession(factory, slot, teacher) ==
    LET r == SessionFactory_createSession(factory, slot[1], slot[2], teacher)
    IN  /\ created' = IF r.ok THEN {r.obj} ELSE {}
        /\ ulast' = UCall("createSession", "", factory, <<teacher>>,
                          r.err, r.obj)
        /\ UNCHANGED <<sessions, notCourse>>

\* factory->createLecture(time, room, teacher) on a CourseFactory.
CreateLecture(factory, slot, teacher) ==
    LET r == CourseFactory_createLecture(factory, slot[1], slot[2], teacher)
    IN  /\ created' = IF r.ok THEN {r.obj} ELSE {}
        /\ ulast' = UCall("createLecture", "", factory, <<teacher>>,
                          r.err, r.obj)
        /\ UNCHANGED <<sessions, notCourse>>

\* factory->createPractical(time, room, teacher) on a CourseFactory.
CreatePractical(factory, slot, teacher) ==
    LET r == CourseFactory_createPractical(factory, slot[1], slot[2], teacher)
    IN  /\ created' = IF r.ok THEN {r.obj} ELSE {}
        /\ ulast' = UCall("createPractical", "", factory, <<teacher>>,
                          r.err, r.obj)
        /\ UNCHANGED <<sessions, notCourse>>

\* std::make_shared<class>(title, supervisor) for a CourseWork subclass.
MakeCourseWork(class, supervisor) ==
    LET r == CourseWork(class, supervisor)
    IN  /\ created' = IF r.ok THEN {r.obj} ELSE {}
        /\ ulast' = UCall("makeCourseWork", "", class, <<supervisor>>,
                          r.err, r.obj)
        /\ UNCHANGED <<sessions, notCourse>>

\* group->addSession(session) with a session that exists.
AddSession(g, session) ==
    /\ TotalSessions < MaxSessions
    /\ sessions' = [sessions EXCEPT ![g] = Append(@, session)]
    /\ created' = {}
    /\ ulast' = UCall("addSession", g, "", <<>>, NoThrow, session)
    /\ UNCHANGED notCourse

\* The objects enroll constructs, in order, up to the first constructor
\* that throws.
EnrollObjects(factory, lecturer, assistant, supervisor) ==
    LET lecture    == CourseFactory_createLecture(
                          factory, EnrollLectureSlot[1],
                          EnrollLectureSlot[2], lecturer)
        practical  == CourseFactory_createPractical(
                          factory, EnrollPracticalSlot[1],
                          EnrollPracticalSlot[2], assistant)
        coursework == CourseFactory_createCourseWork(factory, supervisor)
    IN  IF ~lecture.ok THEN [err |-> lecture.err, objs |-> <<>>]
        ELSE IF ~practical.ok
             THEN [err |-> practical.err, objs |-> <<lecture.obj>>]
        ELSE IF ~coursework.ok
             THEN [err |-> coursework.err,
                   objs |-> <<lecture.obj, practical.obj>>]
        ELSE [err |-> NoThrow,
              objs |-> <<lecture.obj, practical.obj, coursework.obj>>]

Range(f) == {f[i] : i \in DOMAIN f}

\* enroll that adds the lecture to the schedule as soon as it is created.
Enroll_eager(g, factory, lecturer, assistant, supervisor) ==
    /\ TotalSessions + 2 <= MaxSessions
    /\ LET e == EnrollObjects(factory, lecturer, assistant, supervisor)
       IN  /\ created' = Range(e.objs)
           /\ sessions' =
                [sessions EXCEPT ![g] =
                    @ \o SubSeq(e.objs, 1, IF Len(e.objs) > 2 THEN 2
                                           ELSE Len(e.objs))]
           /\ ulast' = UCall("enroll", g, factory,
                             <<lecturer, assistant, supervisor>>,
                             e.err, NoObject)
    /\ UNCHANGED notCourse

\* group->enroll(factory, courseName, lecturer, assistant, supervisor).
\* The three objects are created first; the two sessions are added only
\* when no constructor threw, and std::invalid_argument is caught inside.
Enroll(g, factory, lecturer, assistant, supervisor) ==
    /\ TotalSessions + 2 <= MaxSessions
    /\ LET e == EnrollObjects(factory, lecturer, assistant, supervisor)
       IN  /\ created' = Range(e.objs)
           /\ sessions' =
                IF e.err = NoThrow
                THEN [sessions EXCEPT ![g] = @ \o <<e.objs[1], e.objs[2]>>]
                ELSE sessions
           /\ ulast' = UCall("enroll", g, factory,
                             <<lecturer, assistant, supervisor>>,
                             e.err, NoObject)
    /\ UNCHANGED notCourse

NextCourse ==
    \/ \E factory \in SessionFactories, slot \in Slots, teacher \in Teachers :
          CreateSession(factory, slot, teacher)
    \/ \E factory \in CourseFactories, slot \in Slots, teacher \in Teachers :
          CreateLecture(factory, slot, teacher)
    \/ \E factory \in CourseFactories, slot \in Slots, teacher \in Teachers :
          CreatePractical(factory, slot, teacher)
    \/ \E class \in CourseWorkClasses, supervisor \in Teachers :
          MakeCourseWork(class, supervisor)
    \/ \E g \in Groups, session \in ExistingSessions : AddSession(g, session)
    \/ \E g \in Groups, factory \in CourseFactories,
          lecturer \in Teachers, assistant \in Teachers,
          supervisor \in Teachers :
          Enroll(g, factory, lecturer, assistant, supervisor)

SpecCourse == InitCourse /\ [][NextCourse]_vars

\* C17: constructing a GitHubSubmission supervised by the external mentor
\* (the demo's "invalid supervisor assignment") is rejected with an
\* invalid-argument error and no coursework object is created.
C17_MentorSupervisorRejected ==
    (/\ ulast.op = "makeCourseWork"
     /\ ulast.via = "GitHubSubmission"
     /\ ulast.teachers = <<mentor>>)
    => /\ ulast.err = InvalidArgument
       /\ ulast.ret = NoObject
       /\ created = {}

\* C18: creating a lecture with a teacher who cannot teach lectures, or a
\* practical with a teacher who cannot teach practicals, through a session
\* factory or a course factory, fails with an invalid-argument error and
\* yields no session; every LectureSession ever created has a Lecturer and
\* every PracticalSession a Lecturer or an Assistant.
C18_SessionsHaveEligibleTeacher ==
    /\ \A o \in created :
          /\ o.class = "LectureSession" => o.teacher.type = "Lecturer"
          /\ o.class = "PracticalSession" =>
                o.teacher.type \in {"Lecturer", "Assistant"}
    /\ (/\ \/ ulast.op = "createLecture"
           \/ ulast.op = "createSession" /\ ulast.via = "LectureFactory"
        /\ ulast.teachers[1].type # "Lecturer")
       => /\ ulast.err = InvalidArgument
          /\ ulast.ret = NoObject
          /\ created = {}
    /\ (/\ \/ ulast.op = "createPractical"
           \/ ulast.op = "createSession" /\ ulast.via = "PracticalFactory"
        /\ ulast.teachers[1].type \notin {"Lecturer", "Assistant"})
       => /\ ulast.err = InvalidArgument
          /\ ulast.ret = NoObject
          /\ created = {}

\* LectureFactory was asked for a lecture by the external mentor (the
\* demo's failedLecture) and threw.
C18_Witness ==
    /\ ulast.op = "createSession"
    /\ ulast.via = "LectureFactory"
    /\ ulast.teachers = <<mentor>>
    /\ ulast.err = InvalidArgument
    /\ TotalSessions > 0

\* C19: enroll leaves the group's session list exactly as it was when
\* creating the lecture, the practical or the coursework fails because a
\* teacher is not eligible; otherwise exactly two sessions are appended,
\* the lecture followed by the practical.
C19_EnrollAllOrNothing ==
    ulast.op = "enroll" =>
        LET g        == ulast.group
            eligible == /\ ulast.teachers[1].type = "Lecturer"
                        /\ ulast.teachers[2].type \in {"Lecturer", "Assistant"}
            n        == Len(ulast.before[g])
        IN  IF eligible
            THEN /\ ulast.err = NoThrow
                 /\ Len(sessions[g]) = n + 2
                 /\ SubSeq(sessions[g], 1, n) = ulast.before[g]
                 /\ sessions[g][n + 1].class = "LectureSession"
                 /\ sessions[g][n + 1].teacher = ulast.teachers[1]
                 /\ sessions[g][n + 2].class = "PracticalSession"
                 /\ sessions[g][n + 2].teacher = ulast.teachers[2]
            ELSE /\ ulast.err = InvalidArgument
                 /\ sessions[g] = ulast.before[g]

\* An enroll whose lecture was created and whose practical was refused, on
\* a group that already had sessions.
C19_Witness ==
    /\ ulast.op = "enroll"
    /\ ulast.teachers[1].type = "Lecturer"
    /\ ulast.teachers[2].type = "External Mentor"
    /\ ulast.err = InvalidArgument
    /\ ulast.before[ulast.group] # <<>>
    /\ sessions[ulast.group] = ulast.before[ulast.group]

(***************************************************************************)
(* The port simulator of src/lab2/cpp/main.cpp: containers, ports and      *)
(* ships.  A Container*, Port* or Ship* is the name of the object; every   *)
(* Container* passed to load and unLoad is non-null.  ships maps a ship to *)
(* the fields load and unLoad read and write, ports maps a port to its     *)
(* three lists, plast records the last call.                               *)
(***************************************************************************)
\* Containers one port holds at most; unLoad at a port stops beyond it.
MaxPortContainers == 2

Nullptr == "nullptr"

Ports == {"p1", "p2"}

Ships == {"s1"}

\* The Container objects: main's four kinds, and a basic container whose
\* weight is negative (Container's constructor takes any int).
Containers == {"c1", "c2", "c3", "c4", "c5"}

Container(c) ==
    CASE c = "c1" -> [ID |-> 0, weight |-> 1,  type |-> "Basic"]
      [] c = "c2" -> [ID |-> 1, weight |-> 2,  type |-> "Heavy"]
      [] c = "c3" -> [ID |-> 2, weight |-> 1,  type |-> "Refrigerated"]
      [] c = "c4" -> [ID |-> 3, weight |-> 1,  type |-> "Liquid"]
      [] c = "c5" -> [ID |-> 4, weight |-> -1, type |-> "Basic"]

\* The limits a ship is constructed with.
ShipLimits ==
    { [totalWeightCapacity |-> 4, maxAll |-> 3, maxHeavy |-> 1,
       maxRefrig |-> 1, maxLiquid |-> 1],
      [totalWeightCapacity |-> 2, maxAll |-> 3, maxHeavy |-> 1,
       maxRefrig |-> 1, maxLiquid |-> 0],
      [totalWeightCapacity |-> 3, maxAll |-> 2, maxHeavy |-> 0,
       maxRefrig |-> 1, maxLiquid |-> 1],
      [totalWeightCapacity |-> -1, maxAll |-> 1, maxHeavy |-> 1,
       maxRefrig |-> 0, maxLiquid |-> 1] }

Port_addContainer(port, c) ==
    [port EXCEPT !.containers = Append(@, c)]

Port_incomingShip(port, s) ==
    [port EXCEPT
       !.current = IF s \in Range(@) THEN @ ELSE Append(@, s),
       !.history = IF s \in Range(@) THEN @ ELSE Append(@, s)]

\* Port's constructor.
NewPort == [containers |-> <<>>, history |-> <<>>, current |-> <<>>]

\* The fields Ship's constructor sets that load and unLoad use.
NewShip(port, limits) ==
    [currentPort |-> port,
     totalWeightCapacity |-> limits.totalWeightCapacity,
     maxAll |-> limits.maxAll, maxHeavy |-> limits.maxHeavy,
     maxRefrig |-> limits.maxRefrig, maxLiquid |-> limits.maxLiquid,
     containers |-> <<>>]

RECURSIVE Ship_countType(_, _)
Ship_countType(containers, t) ==
    IF containers = <<>> THEN 0
    ELSE (IF Container(Head(containers)).type = t THEN 1 ELSE 0)
         + Ship_countType(Tail(containers), t)

\* The loop of load that adds up the weights on board.
RECURSIVE TotalW(_)
TotalW(containers) ==
    IF containers = <<>> THEN 0
    ELSE Container(Head(containers)).weight + TotalW(Tail(containers))

\* load that refuses only beyond maxAll containers.
Ship_load_offByOne(ship, c) ==
    LET x == Container(c) IN
    IF Len(ship.containers) > ship.maxAll
        THEN [ship |-> ship, ret |-> FALSE]
    ELSE IF TotalW(ship.containers) + x.weight > ship.totalWeightCapacity
        THEN [ship |-> ship, ret |-> FALSE]
    ELSE IF /\ x.type = "Heavy"
            /\ Ship_countType(ship.containers, "Heavy") >= ship.maxHeavy
        THEN [ship |-> ship, ret |-> FALSE]
    ELSE IF /\ x.type = "Refrigerated"
            /\ Ship_countType(ship.containers, "Refrigerated")
                  >= ship.maxRefrig
        THEN [ship |-> ship, ret |-> FALSE]
    ELSE IF /\ x.type = "Liquid"
            /\ Ship_countType(ship.containers, "Liquid") >= ship.maxLiquid
        THEN [ship |-> ship, ret |-> FALSE]
    ELSE [ship |-> [ship EXCEPT !.containers = Append(@, c)], ret |-> TRUE]

Ship_load(ship, c) ==
    LET x == Container(c) IN
    IF Len(ship.containers) >= ship.maxAll
        THEN [ship |-> ship, ret |-> FALSE]
    ELSE IF TotalW(ship.containers) + x.weight > ship.totalWeightCapacity
        THEN [ship |-> ship, ret |-> FALSE]
    ELSE IF /\ x.type = "Heavy"
            /\ Ship_countType(ship.containers, "Heavy") >= ship.maxHeavy
        THEN [ship |-> ship, ret |-> FALSE]
    ELSE IF /\ x.type = "Refrigerated"
            /\ Ship_countType(ship.containers, "Refrigerated")
                  >= ship.maxRefrig
        THEN [ship |-> ship, ret |-> FALSE]
    ELSE IF /\ x.type = "Liquid"
            /\ Ship_countType(ship.containers, "Liquid") >= ship.maxLiquid
        THEN [ship |-> ship, ret |-> FALSE]
    ELSE [ship |-> [ship EXCEPT !.containers = Append(@, c)], ret |-> TRUE]

\* std::find: the first position of c, or 0 for end().
RECURSIVE Find(_, _, _)
Find(containers, c, i) ==
    IF i > Len(containers) THEN 0
    ELSE IF containers[i] = c THEN i
    ELSE Find(containers, c, i + 1)

\* vector::erase of the element at position i.
Erase(containers, i) ==
    SubSeq(containers, 1, i - 1) \o SubSeq(containers, i + 1, Len(containers))

PCall(op, s, c, ret, negative) ==
    [op |-> op, ship |-> s, container |-> c, ret |-> ret,
     before |-> ships[s].containers, negative |-> negative]

InitPort ==
    /\ InitStore
    /\ IdleBill
    /\ IdleDemo
    /\ IdleProbe
    /\ IdleCourse
    /\ \E port \in Ports \cup {Nullptr}, limits \in ShipLimits :
          /\ ships = [s \in Ships |-> NewShip(port, limits)]
          /\ ports = [p \in Ports |->
                        IF p = port THEN Port_incomingShip(NewPort, "s1")
                        ELSE NewPort]
    /\ plast = [op |-> "none", ship |-> "", container |-> "", ret |-> FALSE,
                before |-> <<>>, negative |-> FALSE]

notPort == <<storeVars, pc, probe, courseVars, billVars>>

\* s.load(c).  plast.negative remembers whether the ship has ever taken a
\* container of negative weight on board.
Load(s, c) ==
    LET r == Ship_load(ships[s], c) IN
    /\ ships' = [ships EXCEPT ![s] = r.ship]
    /\ plast' = PCall("load", s, c, r.ret,
                      plast.negative \/ (r.ret /\ Container(c).weight < 0))
    /\ UNCHANGED <<ports, notPort>>

\* s.unLoad(c): the container leaves the ship and, when the ship is at a
\* port, joins the port's containers.
UnLoad(s, c) ==
    LET ship == ships[s]
        it   == Find(ship.containers, c, 1)
    IN  /\ ship.currentPort # Nullptr =>
              Len(ports[ship.currentPort].containers) < MaxPortContainers
        /\ IF it = 0
           THEN /\ plast' = PCall("unLoad", s, c, FALSE, plast.negative)
                /\ UNCHANGED <<ships, ports>>
           ELSE /\ ships' = [ships EXCEPT
                               ![s].containers = Erase(@, it)]
                /\ ports' = IF ship.currentPort # Nullptr
                            THEN [ports EXCEPT ![ship.currentPort] =
                                     Port_addContainer(@, c)]
                            ELSE ports
                /\ plast' = PCall("unLoad", s, c, TRUE, plast.negative)
        /\ UNCHANGED notPort

NextPort ==
    \/ \E s \in Ships, c \in Containers : Load(s, c)
    \/ \E s \in Ships, c \in Containers : UnLoad(s, c)

SpecPort == InitPort /\ [][NextPort]_vars

\* The number of containers of type t in a list, by positions.
CountOf(containers, t) ==
    Cardinality({i \in DOMAIN containers : Container(containers[i]).type = t})

\* The total weight of a list, summed from the back.
RECURSIVE WeightOf(_)
WeightOf(containers) ==
    IF containers = <<>> THEN 0
    ELSE WeightOf(SubSeq(containers, 1, Len(containers) - 1))
         + Container(containers[Len(containers)]).weight

\* The five limits hold for the containers the ship carries.
WithinLimits(ship) ==
    /\ Len(ship.containers) <= ship.maxAll
    /\ WeightOf(ship.containers) <= ship.totalWeightCapacity
    /\ CountOf(ship.containers, "Heavy") <= ship.maxHeavy
    /\ CountOf(ship.containers, "Refrigerated") <= ship.maxRefrig
    /\ CountOf(ship.containers, "Liquid") <= ship.maxLiquid

NonNegativeLimits(ship) ==
    /\ ship.totalWeightCapacity >= 0
    /\ ship.maxAll >= 0
    /\ ship.maxHeavy >= 0
    /\ ship.maxRefrig >= 0
    /\ ship.maxLiquid >= 0

\* C20 as stated: after any sequence of load and unLoad calls on a ship
\* that starts empty, the ship is within its five limits, and a load that
\* would break a limit returns false and leaves the container list
\* unchanged.
C20_Original ==
    /\ \A s \in Ships : WithinLimits(ships[s])
    /\ plast.op = "load" =>
          LET ship == ships[plast.ship]
              with == [ship EXCEPT
                         !.containers = Append(plast.before, plast.container)]
          IN  ~WithinLimits(with) =>
                 /\ plast.ret = FALSE
                 /\ ship.containers = plast.before

\* C20 amended: for a ship whose limits are not negative, after any
\* sequence of load and unLoad calls from empty the ship carries at most
\* maxAll containers and at most maxHeavy, maxRefrig and maxLiquid of the
\* three types; its total weight is at most totalWeightCapacity as long as
\* it has never loaded a container of negative weight.  A load that would
\* exceed maxAll or a type limit, or whose container would take the total
\* weight above totalWeightCapacity, returns false and leaves the
\* container list unchanged.
C20_LoadLimits ==
    /\ \A s \in Ships :
          LET ship == ships[s] IN
          NonNegativeLimits(ship) =>
             /\ Len(ship.containers) <= ship.maxAll
             /\ CountOf(ship.containers, "Heavy") <= ship.maxHeavy
             /\ CountOf(ship.containers, "Refrigerated") <= ship.maxRefrig
             /\ CountOf(ship.containers, "Liquid") <= ship.maxLiquid
             /\ ~plast.negative =>
                   WeightOf(ship.containers) <= ship.totalWeightCapacity
    /\ plast.op = "load" =>
          LET ship == ships[plast.ship]
              n    == Len(plast.before)
              x    == Container(plast.container)
              over == \/ n + 1 > ship.maxAll
                      \/ WeightOf(plast.before) + x.weight
                            > ship.totalWeightCapacity
                      \/ /\ x.type = "Heavy"
                         /\ CountOf(plast.before, "Heavy") + 1 > ship.maxHeavy
                      \/ /\ x.type = "Refrigerated"
                         /\ CountOf(plast.before, "Refrigerated") + 1
                               > ship.maxRefrig
                      \/ /\ x.type = "Liquid"
                         /\ CountOf(plast.before, "Liquid") + 1
                               > ship.maxLiquid
          IN  IF over
              THEN plast.ret = FALSE /\ ship.containers = plast.before
              ELSE /\ plast.ret = TRUE
                   /\ ship.containers = Append(plast.before, plast.container)

\* A ship at a port that has unloaded there, carries as many containers as
\* it may, never took a negative weight and has just refused a load.
C20_Witness ==
    /\ plast.op = "load"
    /\ plast.ret = FALSE
    /\ ~plast.negative
    /\ NonNegativeLimits(ships["s1"])
    /\ ships["s1"].currentPort # Nullptr
    /\ ports[ships["s1"].currentPort].containers # <<>>
    /\ Len(ships["s1"].containers) = ships["s1"].maxAll

(***************************************************************************)
(* Sailing in the port simulator (src/lab2/cpp/main.cpp): two ships, each  *)
(* constructed at a port, refuel, load and sail between the ports.  A      *)
(* double that is a multiple of 0.5 is written as its number of halves:    *)
(* fuel, fuelPerKm, the containers' consumption and the refuel amounts are *)
(* all such numbers and the ports lie at an integer distance, so every sum,*)
(* product and comparison sailTo makes is exact in double arithmetic.      *)
(***************************************************************************)
\* Halves of fuel a ship holds at most; reFuel stops beyond it.
MaxFuel == 30

SailShips == {"s1", "s2"}

\* latitude and longitude of the ports.
PortAt(p) ==
    CASE p = "p1" -> [latitude |-> 0, longitude |-> 0]
      [] p = "p2" -> [latitude |-> 3, longitude |-> 4]

\* sqrt of a perfect square.
Sqrt(n) == CHOOSE r \in 0..n : r * r = n

Port_getDistance(p, other) ==
    LET dx == PortAt(p).latitude - PortAt(other).latitude
        dy == PortAt(p).longitude - PortAt(other).longitude
    IN  Sqrt(dx * dx + dy * dy)

\* consumption() of the container's class, in halves.
Container_consumption(c) ==
    CASE Container(c).type = "Basic"        -> 5
      [] Container(c).type = "Heavy"        -> 6
      [] Container(c).type = "Refrigerated" -> 10
      [] Container(c).type = "Liquid"       -> 8

RECURSIVE Ship_totalContainerConsumption(_)
Ship_totalContainerConsumption(containers) ==
    IF containers = <<>> THEN 0
    ELSE Container_consumption(Head(containers))
         + Ship_totalContainerConsumption(Tail(containers))

\* outgoingShip that leaves the list of current ships as it is.
Port_outgoingShip_keep(port, s) == port

\* std::remove and erase: every occurrence of s leaves current.
Port_outgoingShip(port, s) ==
    [port EXCEPT !.current = SelectSeq(@, LAMBDA x : x # s)]

\* The limits and fuelPerKm (in halves) the two ships are constructed with.
SailLimits ==
    [totalWeightCapacity |-> 4, maxAll |-> 1, maxHeavy |-> 1,
     maxRefrig |-> 1, maxLiquid |-> 1]

FuelPerKm(s) == CASE s = "s1" -> 1 [] s = "s2" -> 2

\* Ship's constructor, with the fields sailTo and reFuel use.
NewSailShip(s, port) ==
    LET ship == NewShip(port, SailLimits) IN
    [currentPort |-> ship.currentPort,
     totalWeightCapacity |-> ship.totalWeightCapacity,
     maxAll |-> ship.maxAll, maxHeavy |-> ship.maxHeavy,
     maxRefrig |-> ship.maxRefrig, maxLiquid |-> ship.maxLiquid,
     containers |-> ship.containers,
     fuel |-> 0, fuelPerKm |-> FuelPerKm(s)]

\* ship.sailTo(p) for the ship named s, whose currentPort is not null.
Ship_sailTo(all, s, p) ==
    LET ship == ships[s] IN
    IF p = Nullptr THEN [ship |-> ship, ports |-> all, ret |-> FALSE]
    ELSE LET dist     == Port_getDistance(ship.currentPort, p)
             required == dist * (ship.fuelPerKm
                           + Ship_totalContainerConsumption(ship.containers))
             out      == [all EXCEPT ![ship.currentPort] =
                             Port_outgoingShip(@, s)]
             in       == [out EXCEPT ![p] = Port_incomingShip(@, s)]
         IN  IF ship.fuel >= required
             THEN [ship |-> [ship EXCEPT !.fuel = @ - required,
                                         !.currentPort = p],
                   ports |-> in, ret |-> TRUE]
             ELSE [ship |-> ship, ports |-> all, ret |-> FALSE]

\* The record of a sailTo or reFuel call, with the ships and ports at entry.
SCall(op, s, p, ret) ==
    [op |-> op, ship |-> s, container |-> "", ret |-> ret,
     before |-> ships[s].containers, negative |-> plast.negative,
     target |-> p, ships |-> ships, ports |-> ports]

InitSail ==
    /\ InitStore
    /\ IdleBill
    /\ IdleDemo
    /\ IdleProbe
    /\ IdleCourse
    /\ \E port1 \in Ports, port2 \in Ports :
          /\ ships = [s \in SailShips |->
                        NewSailShip(s, IF s = "s1" THEN port1 ELSE port2)]
          /\ ports = [p \in Ports |->
                        LET a == IF p = port1
                                 THEN Port_incomingShip(NewPort, "s1")
                                 ELSE NewPort
                        IN  IF p = port2 THEN Port_incomingShip(a, "s2")
                            ELSE a]
    /\ plast = [op |-> "none", ship |-> "", container |-> "", ret |-> FALSE,
                before |-> <<>>, negative |-> FALSE]

\* s.sailTo(p).
SailTo(s, p) ==
    LET r == Ship_sailTo(ports, s, p) IN
    /\ ships' = [ships EXCEPT ![s] = r.ship]
    /\ ports' = r.ports
    /\ plast' = SCall("sailTo", s, p, r.ret)
    /\ UNCHANGED notPort

\* s.reFuel(newFuel).
ReFuel(s, newFuel) ==
    /\ ships[s].fuel + newFuel <= MaxFuel
    /\ ships' = [ships EXCEPT ![s].fuel = @ + newFuel]
    /\ plast' = SCall("reFuel", s, Nullptr, TRUE)
    /\ UNCHANGED <<ports, notPort>>

\* Amounts passed to reFuel, in halves.
FuelAmounts == {5, 25}

\* Containers offered to load before sailing.
SailContainers == {"c1"}

NextSail ==
    \/ \E s \in SailShips, p \in Ports \cup {Nullptr} : SailTo(s, p)
    \/ \E s \in SailShips, newFuel \in FuelAmounts : ReFuel(s, newFuel)
    \/ \E s \in SailShips, c \in SailContainers : Load(s, c)

SpecSail == InitSail /\ [][NextSail]_vars

\* The number of positions of s in a list of ships.
Occurrences(list, s) == Cardinality({i \in DOMAIN list : list[i] = s})

\* C21: after any sequence of sailTo calls (successful, refused for lack of
\* fuel, or with a null target) on ships constructed at a port, every ship
\* appears exactly once in the current list of exactly one port, which is
\* its currentPort; a refused sailTo changes neither the ship's fuel and
\* currentPort nor any port's ship lists.
C21_ShipAtOnePort ==
    /\ \A s \in SailShips :
          /\ ships[s].currentPort \in Ports
          /\ \A p \in Ports :
                Occurrences(ports[p].current, s)
                   = IF p = ships[s].currentPort THEN 1 ELSE 0
    /\ (plast.op = "sailTo" /\ ~plast.ret) =>
          /\ ships[plast.ship].fuel = plast.ships[plast.ship].fuel
          /\ ships[plast.ship].currentPort
                = plast.ships[plast.ship].currentPort
          /\ \A p \in Ports :
                /\ ports[p].current = plast.ports[p].current
                /\ ports[p].history = plast.ports[p].history

\* A ship that has sailed to the other ship's port has just been refused
\* the way back for lack of fuel.
C21_Witness ==
    /\ plast.op = "sailTo"
    /\ plast.ret = FALSE
    /\ plast.target = "p1"
    /\ ships["s1"].currentPort = "p2"
    /\ ports["p2"].current = <<"s2", "s1">>
    /\ ports["p1"].history = <<"s1">>

(***************************************************************************)
(* The billing program of src/unnamed/part_001 (lines 421-626): Bill,      *)
(* Operator and Customer.  Money is a double; every amount of money here   *)
(* is a multiple of 0.25 and is written as its number of quarters, every   *)
(* charge is a multiple of 0.5 written as its number of halves, and the    *)
(* discount rates are multiples of 50, so that 1 - discountRate / 100.0    *)
(* is a multiple of 0.5 and each product, sum and comparison the program   *)
(* makes is exact in double arithmetic.  An Operator* or Bill* is the      *)
(* object's index, a Customer the customer's name.                         *)
(***************************************************************************)
\* Quarters of debt, above or below zero, a bill reaches at most; a call
\* that would take the debt further is not made.
MaxMoney == 4

CustomerNames == {"Alice", "Bob"}

OperatorIds == {0, 1}

\* Percentages operator 1 is constructed with.
DiscountRates == {0, 150}

\* Limits, in quarters, the bills are constructed with.
Limits == {4, -1}

\* Operator's constructor: talk, msg and net in halves, discount in percent.
Operator(talk, msg, net, discount) ==
    [talkingCharge |-> talk, messageCost |-> msg, networkCharge |-> net,
     discountRate |-> discount]

\* Bill's constructor.
Bill(limit) == [limitingAmount |-> limit, currentDebt |-> 0]

\* Customer's constructor; the limit argument is not stored.
Customer(age, op, bill) == [age |-> age, op |-> op, bill |-> bill]

\* Twice 1 - discountRate / 100.0.
Factor(discountRate) == (200 - 2 * discountRate) \div 100

\* The cost in quarters: charge (halves) times minute, discounted for the
\* young and the old.
Operator_calculateTalkingCost(op, minute, customer) ==
    LET cost == op.talkingCharge * minute IN
    IF customer.age < 18 \/ customer.age > 65
    THEN cost * Factor(op.discountRate)
    ELSE cost * 2

\* The ids of the two customers' operators are compared; an operator's id
\* is its index.
Operator_calculateMessageCost(op, quantity, customer, other) ==
    LET cost == op.messageCost * quantity IN
    IF customer.op = other.op
    THEN cost * Factor(op.discountRate)
    ELSE cost * 2

Operator_calculateNetworkCost(op, amount) == op.networkCharge * amount * 2

Bill_check(bill, amount) ==
    bill.currentDebt + amount <= bill.limitingAmount

Bill_add(bill, amount) == [bill EXCEPT !.currentDebt = @ + amount]

\* pay that takes the whole amount off the debt.
Bill_pay_unclamped(bill, amount) ==
    [bill EXCEPT !.currentDebt = @ - amount]

Bill_pay(bill, amount) ==
    LET paid == IF amount > bill.currentDebt THEN bill.currentDebt
                ELSE amount
    IN  [bill EXCEPT !.currentDebt = @ - paid]

Bill_changeTheLimit(bill, amount) == [bill EXCEPT !.limitingAmount = amount]

\* The record of a call on customer c: the money it was about, the bill as
\* it was at entry, and whether this and every earlier call had a
\* non-negative amount and left the limit alone.
BCall(op, c, money, regular) ==
    [op |-> op, customer |-> c, money |-> money,
     debt |-> bills[customers[c].bill].currentDebt,
     limit |-> bills[customers[c].bill].limitingAmount,
     regular |-> blast.regular /\ regular]

InitBill ==
    /\ InitStore
    /\ IdleDemo
    /\ IdleProbe
    /\ IdleCourse
    /\ IdlePort
    /\ \E discount \in DiscountRates :
          operators = [i \in OperatorIds |->
                         IF i = 0 THEN Operator(1, 1, 1, 50)
                         ELSE Operator(2, 1, 1, discount)]
    /\ \E limit0 \in Limits, limit1 \in Limits :
          bills = [i \in {0, 1} |-> Bill(IF i = 0 THEN limit0 ELSE limit1)]
    /\ customers = [c \in CustomerNames |->
                      IF c = "Alice" THEN Customer(20, 0, 0)
                      ELSE Customer(70, 1, 1)]
    /\ blast = [op |-> "none", customer |-> "", money |-> 0, debt |-> 0,
                limit |-> 0, regular |-> TRUE]

notBill == <<storeVars, pc, probe, courseVars, portVars>>

\* if (bill->check(cost)) bill->add(cost), the body shared by talk,
\* message and connection.
Charge(c, cost) ==
    LET b == customers[c].bill IN
    /\ bills' = IF Bill_check(bills[b], cost)
                THEN [bills EXCEPT ![b] = Bill_add(@, cost)]
                ELSE bills
    /\ bills'[b].currentDebt \in (-MaxMoney)..MaxMoney

\* c.talk(minute, other).
Talk(c, minute, other) ==
    LET cost == Operator_calculateTalkingCost(
                    operators[customers[c].op], minute, customers[c])
    IN  /\ Charge(c, cost)
        /\ blast' = BCall("talk", c, cost, minute >= 0)
        /\ UNCHANGED <<operators, customers, notBill>>

\* c.message(quantity, other).
Message(c, quantity, other) ==
    LET cost == Operator_calculateMessageCost(
                    operators[customers[c].op], quantity, customers[c],
                    customers[other])
    IN  /\ Charge(c, cost)
        /\ blast' = BCall("message", c, cost, quantity >= 0)
        /\ UNCHANGED <<operators, customers, notBill>>

\* c.connection(amount).
Connection(c, amount) ==
    LET cost == Operator_calculateNetworkCost(
                    operators[customers[c].op], amount)
    IN  /\ Charge(c, cost)
        /\ blast' = BCall("connection", c, cost, amount >= 0)
        /\ UNCHANGED <<operators, customers, notBill>>

\* c.pay(amount), amount in quarters.
Pay(c, amount) ==
    LET b == customers[c].bill IN
    /\ bills' = [bills EXCEPT ![b] = Bill_pay(@, amount)]
    /\ bills'[b].currentDebt \in (-MaxMoney)..MaxMoney
    /\ blast' = BCall("pay", c, amount, amount >= 0)
    /\ UNCHANGED <<operators, customers, notBill>>

\* c.changeOperator(newOp).
ChangeOperator(c, newOp) ==
    /\ customers' = [customers EXCEPT ![c].op = newOp]
    /\ blast' = BCall("changeOperator", c, 0, TRUE)
    /\ UNCHANGED <<operators, bills, notBill>>

\* c.changeBillLimit(newLimit), newLimit in quarters.
ChangeBillLimit(c, newLimit) ==
    /\ bills' = [bills EXCEPT ![customers[c].bill] =
                    Bill_changeTheLimit(@, newLimit)]
    /\ blast' = BCall("changeBillLimit", c, newLimit, FALSE)
    /\ UNCHANGED <<operators, customers, notBill>>

\* Minutes, quantities and megabytes passed to talk, message, connection.
Amounts == {1, -1}

\* Quarters passed to pay.
Payments == {2, 8, -2}

\* Quarters passed to changeBillLimit.
NewLimits == {2}

NextBill ==
    \/ \E c \in CustomerNames, minute \in Amounts, other \in CustomerNames :
          Talk(c, minute, other)
    \/ \E c \in CustomerNames, quantity \in Amounts, other \in CustomerNames :
          Message(c, quantity, other)
    \/ \E c \in CustomerNames, amount \in Amounts : Connection(c, amount)
    \/ \E c \in CustomerNames, amount \in Payments : Pay(c, amount)
    \/ \E c \in CustomerNames, newOp \in OperatorIds : ChangeOperator(c, newOp)
    \/ \E c \in CustomerNames, newLimit \in NewLimits :
          ChangeBillLimit(c, newLimit)

SpecBill == InitBill /\ [][NextBill]_vars

\* The bill of the customer of the last call.
LastBill == bills[customers[blast.customer].bill]

\* What the first two sentences of C22 say of the last call: a charge is
\* added exactly when debt + cost is within the limit, and pay takes off
\* the amount or, when that is more than the debt, the debt.
ChargedOrKept ==
    /\ blast.op \in {"talk", "message", "connection"} =>
          LastBill.currentDebt =
             IF blast.debt + blast.money <= blast.limit
             THEN blast.debt + blast.money ELSE blast.debt
    /\ blast.op = "pay" =>
          /\ blast.debt - LastBill.currentDebt <= blast.debt
          /\ LastBill.currentDebt =
                blast.debt - (IF blast.money < blast.debt THEN blast.money
                              ELSE blast.debt)

\* C22 as stated: a charge is added only when debt + cost does not exceed
\* the limit, pay reduces the debt by at most the debt, and after any
\* sequence of talk, message, connection and pay calls with non-negative
\* amounts and no change of the limit, 0 <= currentDebt <= limitingAmount.
C22_Original ==
    /\ ChargedOrKept
    /\ blast.regular =>
          \A b \in DOMAIN bills :
             /\ 0 <= bills[b].currentDebt
             /\ bills[b].currentDebt <= bills[b].limitingAmount

\* No charge and no discounted charge of the operator is negative.
FairOperator(op) ==
    /\ op.talkingCharge >= 0
    /\ op.messageCost >= 0
    /\ op.networkCharge >= 0
    /\ op.discountRate <= 100

\* C22 amended: a charge is added exactly when debt + cost does not exceed
\* the limit and otherwise the debt is unchanged, and pay takes off the
\* amount or, when that is more, the whole debt; after any sequence of
\* talk, message, connection, pay and changeOperator calls with
\* non-negative amounts and no change of the limit, a bill constructed with
\* a non-negative limit has 0 <= currentDebt <= limitingAmount provided no
\* operator has a negative charge or a discount rate above 100.
C22_DebtWithinLimit ==
    /\ ChargedOrKept
    /\ (blast.regular /\ \A i \in OperatorIds : FairOperator(operators[i])) =>
          \A b \in DOMAIN bills :
             bills[b].limitingAmount >= 0 =>
                /\ 0 <= bills[b].currentDebt
                /\ bills[b].currentDebt <= bills[b].limitingAmount

\* Under fair operators and with regular calls only, a charge that would
\* pass the limit has just been refused on a bill that has been paid down
\* before.
C22_Witness ==
    /\ blast.regular
    /\ \A i \in OperatorIds : FairOperator(operators[i])
    /\ blast.op = "talk"
    /\ blast.customer = "Bob"
    /\ blast.debt = 2
    /\ blast.debt + blast.money > blast.limit
    /\ LastBill.currentDebt = 2
    /\ LastBill.limitingAmount = 4

==========================================================================
